---- MODULE Spec2Model ----
(***************************************************************************)
(* Model of src/src/event_sender.rs: EventSender (new / clone / send / drop) *)
(* together with the channels and the listener thread of the test          *)
(* marshall_multiple_events.                                                *)
(*                                                                         *)
(* send is two channel operations with nothing atomic across them, so it   *)
(* is modelled as three steps of the calling thread: the payload step      *)
(* (line 137), the category step (line 140) and the return.                *)
(*                                                                         *)
(* Every message carries the number of the send call that enqueued it      *)
(* (field id).  The program never reads it; it only lets properties speak  *)
(* of "the payload of that send".                                          *)
(***************************************************************************)
EXTENDS Integers, Sequences, FiniteSets, TLC

\* ---------------------------------------------------------------- bounds
MaxSends == 2          \* send calls in one behaviour
MaxSenders == 3        \* EventSender instances ever created (2 constructed + clones)

\* ---------------------------------------------------------------- values
\* t1 is the thread that constructs the senders (the test's main thread),
\* t2 a second producer thread, which sends through the clones handed to it
Threads == {"t1", "t2"}
MainThread == "t1"
ProducerThread == "t2"

Network == "Network"
UserInterface == "UserInterface"
EventCategory == {Network, UserInterface}

TOKEN == "9876"
DIR_NAME == "NewDirectory"

Connected(token) == [kind |-> "Connected", arg |-> token]
Disconnected == [kind |-> "Disconnected", arg |-> ""]
CreateDirectory(name) == [kind |-> "CreateDirectory", arg |-> name]
Terminate == [kind |-> "Terminate", arg |-> ""]

NetworkEvent == {Connected(TOKEN), Disconnected}
UiEvent == {CreateDirectory(DIR_NAME), Terminate}

\* the three channels of the test
ui_event == "ui_event"
network_event == "network_event"
catergory == "catergory"
EventChannels == {ui_event, network_event}
Channels == EventChannels \cup {catergory}

\* the EventSubset type parameter of a payload channel
EventSubset(ch) == IF ch = ui_event THEN UiEvent ELSE NetworkEvent

\* the receiver the listener polls for a category (match arms, 193 and 201)
MatchRx(cat) == IF cat = Network THEN network_event ELSE ui_event

NoSender == [event_tx |-> "", event_category |-> "", event_category_tx |-> "", family |-> 0,
             owner |-> ""]
NoEvent == [kind |-> "", arg |-> ""]
NoMsg == [val |-> NoEvent, id |-> 0]
NoResult == [kind |-> "None", event |-> NoEvent, category |-> ""]
NoThread == [pc |-> "idle", d |-> 0, event |-> NoEvent, id |-> 0, result |-> NoResult]

VARIABLES
  senders,      \* [1..MaxSenders -> EventSender record or NoSender]
  live,         \* set of the sender slots that exist and are not dropped
  created,      \* number of sender slots ever used
  queue,        \* [Channels -> Seq(message)]: items in flight
  rx_alive,     \* [Channels -> BOOLEAN]: the Receiver has not been dropped
  th,           \* [Threads -> the thread's position inside send]
  lpc,          \* listener position: "recv", "poll", "dropping", "done"
  it,           \* the category message the listener is handling
  nsends,       \* number of send calls invoked
  script,       \* position of the test's main thread in its list of sends
  enq,          \* [Channels -> Seq(message)]: everything ever enqueued
  calls,        \* Seq of call records, calls[id] for send call id: the sender
                \* used, the event, the Result once decided, whether it has
                \* returned, the calls that had returned when it was invoked,
                \* whether the receiver of each of its two steps was alive
                \* at that step, and whether the listener was gone at the call
  observed      \* Seq of the listener's (notification, poll result) pairs

vars == <<senders, live, created, queue, rx_alive, th, lpc, it, nsends,
          script, enq, calls, observed>>

\* ------------------------------------------------- std::sync::mpsc channel
\* Sender::send on an unbounded channel: appends unless the Receiver is gone,
\* in which case the value comes back inside SendError.
\* variant: the rejected value is not handed back
TxSendLosesValue(alive, q, m) ==
  IF alive THEN [ok |-> TRUE, q |-> Append(q, m), err |-> NoMsg]
           ELSE [ok |-> FALSE, q |-> q, err |-> NoMsg]

\* variant: a stack instead of a queue
TxSendFront(alive, q, m) ==
  IF alive THEN [ok |-> TRUE, q |-> <<m>> \o q, err |-> NoMsg]
           ELSE [ok |-> FALSE, q |-> q, err |-> m]

\* variant: a channel of capacity one that rejects a value when it is full
TxSendBounded(alive, q, m) ==
  IF alive /\ Len(q) < 1 THEN [ok |-> TRUE, q |-> Append(q, m), err |-> NoMsg]
                          ELSE [ok |-> FALSE, q |-> q, err |-> m]

TxSend(alive, q, m) ==
  IF alive THEN [ok |-> TRUE, q |-> Append(q, m), err |-> NoMsg]
           ELSE [ok |-> FALSE, q |-> q, err |-> m]

\* Receiver::try_recv: the head of the queue, or nothing.
\* variant: takes the newest item
TryRecvLast(q) ==
  IF q # <<>> THEN [ok |-> TRUE, msg |-> q[Len(q)], q |-> SubSeq(q, 1, Len(q) - 1)]
              ELSE [ok |-> FALSE, msg |-> NoMsg, q |-> q]

\* variant: the poll reports Empty whatever the queue holds
TryRecvEmpty(q) == [ok |-> FALSE, msg |-> NoMsg, q |-> q]

TryRecv(q) ==
  IF q # <<>> THEN [ok |-> TRUE, msg |-> Head(q), q |-> Tail(q)]
              ELSE [ok |-> FALSE, msg |-> NoMsg, q |-> q]

\* ------------------------------------------------------------ EventSender
\* family numbers the construction call and owner names the thread that holds
\* the value; neither is a field of the struct.
EventSenderNew(event_tx, event_category, event_category_tx, family, owner) ==
  [event_tx          |-> event_tx,
   event_category    |-> event_category,
   event_category_tx |-> event_category_tx,
   family            |-> family,
   owner             |-> owner]

\* #[derive(Clone)]: every field is cloned
\* variant: the clone does not keep the category it was built with
EventSenderCloneDefault(s, owner) ==
  [event_tx          |-> s.event_tx,
   event_category    |-> Network,
   event_category_tx |-> s.event_category_tx,
   family            |-> s.family,
   owner             |-> owner]

\* variant: the clone writes to the other payload channel
EventSenderCloneOtherTx(s, owner) ==
  [event_tx          |-> IF s.event_tx = ui_event THEN network_event ELSE ui_event,
   event_category    |-> s.event_category,
   event_category_tx |-> s.event_category_tx,
   family            |-> s.family,
   owner             |-> owner]

EventSenderClone(s, owner) ==
  [event_tx          |-> s.event_tx,
   event_category    |-> s.event_category,
   event_category_tx |-> s.event_category_tx,
   family            |-> s.family,
   owner             |-> owner]

\* variant: the error does not carry the rejected event
EventSendErrorEmpty(m) == [kind |-> "EventSendError", event |-> NoEvent, category |-> ""]

EventSendError(m) == [kind |-> "EventSendError", event |-> m.val, category |-> ""]
\* variant: the error does not carry the rejected category
CategorySendErrorEmpty(m) == [kind |-> "CategorySendError", event |-> NoEvent, category |-> ""]

CategorySendError(m) == [kind |-> "CategorySendError", event |-> NoEvent, category |-> m.val]
Ok == [kind |-> "Ok", event |-> NoEvent, category |-> ""]

\* variant: the category is published without the payload having been placed
SendPayloadStepSkipped(s, alive, q, event, id) ==
  [q |-> q, enqueued |-> FALSE, pc |-> "category", result |-> NoResult]

\* variant: the Err of the payload send is not returned, send carries on
SendPayloadStepNoReturn(s, alive, q, event, id) ==
  LET r == TxSend(alive, q, [val |-> event, id |-> id])
  IN [q |-> r.q, enqueued |-> r.ok, pc |-> "category", result |-> NoResult]

\* first half of send: self.event_tx.send(event)
SendPayloadStep(s, alive, q, event, id) ==
  LET r == TxSend(alive, q, [val |-> event, id |-> id])
  IN [q |-> r.q, enqueued |-> r.ok,
      pc |-> IF r.ok THEN "category" ELSE "return",
      result |-> IF r.ok THEN NoResult ELSE EventSendError(r.err)]

\* variant: the test of the category send is inverted
SendCategoryStepInverted(s, alive, q, id) ==
  LET r == TxSend(alive, q, [val |-> s.event_category, id |-> id])
  IN [q |-> r.q, enqueued |-> r.ok,
      result |-> IF r.ok THEN CategorySendError([val |-> s.event_category, id |-> id])
                         ELSE Ok]

\* variant: the category send is tried again after it succeeded
SendCategoryStepTwice(s, alive, q, id) ==
  LET r == TxSend(alive, q, [val |-> s.event_category, id |-> id])
      r2 == TxSend(alive, r.q, [val |-> s.event_category, id |-> id])
  IN [q |-> r2.q, enqueued |-> r.ok,
      result |-> IF r.ok THEN Ok ELSE CategorySendError(r.err)]

\* variant: the error of the category send is swallowed
SendCategoryStepOkAlways(s, alive, q, id) ==
  LET r == TxSend(alive, q, [val |-> s.event_category, id |-> id])
  IN [q |-> r.q, enqueued |-> r.ok, result |-> Ok]

\* second half of send: self.event_category_tx.send(self.event_category.clone())
SendCategoryStep(s, alive, q, id) ==
  LET r == TxSend(alive, q, [val |-> s.event_category, id |-> id])
  IN [q |-> r.q, enqueued |-> r.ok,
      result |-> IF r.ok THEN Ok ELSE CategorySendError(r.err)]

\* ------------------------------------------------------------------- Init
\* The state after lines 175-188: three channels, ui_event_sender in slot 1
\* and nw_event_sender in slot 2, the listener about to read catergory_rx.
Init ==
  /\ senders = [d \in 1..MaxSenders |->
                  IF d = 1 THEN EventSenderNew(ui_event, UserInterface, catergory, 1, MainThread)
                  ELSE IF d = 2 THEN EventSenderNew(network_event, Network, catergory, 2, MainThread)
                  ELSE NoSender]
  /\ live = {1, 2}
  /\ created = 2
  /\ queue = [ch \in Channels |-> <<>>]
  /\ rx_alive = [ch \in Channels |-> TRUE]
  /\ th = [t \in Threads |-> NoThread]
  /\ lpc = "recv"
  /\ it = [val |-> "", id |-> 0]
  /\ nsends = 0
  /\ script = 0
  /\ enq = [ch \in Channels |-> <<>>]
  /\ calls = <<>>
  /\ observed = <<>>

\* ---------------------------------------------------------------- actions
Returned == {i \in 1..Len(calls) : calls[i].returned}

\* send, lines 136-139: the call and its payload step
SendEvent(t, d, event) ==
  /\ th[t].pc = "idle"
  /\ d \in live
  /\ senders[d].owner = t
  /\ event \in EventSubset(senders[d].event_tx)
  /\ LET s == senders[d]
         id == nsends + 1
         r == SendPayloadStep(s, rx_alive[s.event_tx], queue[s.event_tx], event, id)
     IN /\ queue' = [queue EXCEPT ![s.event_tx] = r.q]
        /\ enq' = IF r.enqueued
                    THEN [enq EXCEPT ![s.event_tx] = Append(@, [val |-> event, id |-> id])]
                    ELSE enq
        /\ th' = [th EXCEPT ![t] = [pc |-> r.pc, d |-> d, event |-> event,
                                    id |-> id, result |-> r.result]]
        /\ calls' = Append(calls, [d |-> d, sender |-> s, event |-> event,
                                   result |-> r.result, returned |-> FALSE,
                                   prior |-> Returned,
                                   payload_rx |-> rx_alive[s.event_tx],
                                   exited |-> (lpc = "done"),
                                   category_step |-> FALSE,
                                   category_rx |-> TRUE])
  /\ nsends' = nsends + 1
  /\ UNCHANGED <<senders, live, created, rx_alive, lpc, it, observed>>

\* a producer thread calls send on a sender it can reach
Send(t, d, event) ==
  /\ nsends < MaxSends
  /\ SendEvent(t, d, event)
  /\ UNCHANGED script

\* send, lines 140-144: the category step
SendCategory(t) ==
  /\ th[t].pc = "category"
  /\ LET s == senders[th[t].d]
         id == th[t].id
         r == SendCategoryStep(s, rx_alive[s.event_category_tx],
                               queue[s.event_category_tx], id)
     IN /\ queue' = [queue EXCEPT ![s.event_category_tx] = r.q]
        /\ enq' = IF r.enqueued
                    THEN [enq EXCEPT ![s.event_category_tx] =
                            Append(@, [val |-> s.event_category, id |-> id])]
                    ELSE enq
        /\ th' = [th EXCEPT ![t].pc = "return", ![t].result = r.result]
        /\ calls' = [calls EXCEPT ![id].category_rx = rx_alive[s.event_category_tx],
                                  ![id].category_step = TRUE,
                                  ![id].result = r.result]
  /\ UNCHANGED <<senders, live, created, rx_alive, lpc, it, nsends, script, observed>>

\* send returns its Result to the caller
Return(t) ==
  /\ th[t].pc = "return"
  /\ calls' = [calls EXCEPT ![th[t].id].returned = TRUE]
  /\ th' = [th EXCEPT ![t] = [NoThread EXCEPT !.result = th[t].result]]
  /\ UNCHANGED <<senders, live, created, queue, rx_alive, lpc, it, nsends,
                 script, enq, observed>>

\* EventSender::clone by the thread that holds d; the clone is moved to the
\* producer thread
Clone(d) ==
  /\ d \in live
  /\ th[senders[d].owner].pc = "idle"
  /\ created < MaxSenders
  /\ senders' = [senders EXCEPT ![created + 1] =
                   EventSenderClone(senders[d], ProducerThread)]
  /\ live' = live \cup {created + 1}
  /\ created' = created + 1
  /\ UNCHANGED <<queue, rx_alive, th, lpc, it, nsends, script, enq, calls, observed>>

\* the senders a thread holds go out of scope when it is finished with them
DropSenders(t) ==
  /\ th[t].pc = "idle"
  /\ \E d \in live : senders[d].owner = t
  /\ live' = {d \in live : senders[d].owner # t}
  /\ UNCHANGED <<senders, created, queue, rx_alive, th, lpc, it, nsends, script,
                 enq, calls, observed>>

\* variant: the receive does not wait for the senders to go
TxCountNone(ch) == 0

\* number of live Sender handles of a channel
TxCount(ch) ==
  Cardinality({d \in live : senders[d].event_tx = ch \/ senders[d].event_category_tx = ch})

\* listener, line 191: catergory_rx.iter().next(), a blocking recv that ends
\* the loop once the channel is empty and every Sender is gone
Recv ==
  /\ lpc = "recv"
  /\ IF queue[catergory] # <<>>
       THEN /\ it' = Head(queue[catergory])
            /\ queue' = [queue EXCEPT ![catergory] = Tail(@)]
            /\ lpc' = "poll"
       ELSE /\ TxCount(catergory) = 0
            /\ lpc' = "dropping"
            /\ UNCHANGED <<it, queue>>
  /\ UNCHANGED <<senders, live, created, rx_alive, th, nsends, script, enq,
                 calls, observed>>

\* variant: the Terminate arm does not break
ListenerLeavesNoBreak(cat, event) ==
  IF cat = Network
    THEN ~(event.kind = "Connected" /\ event.arg = TOKEN)
    ELSE event.kind = "CreateDirectory" /\ event.arg # DIR_NAME

\* what the match arms do with a polled event (lines 195-198, 203-206):
\* TRUE when the listener leaves its loop (break or panic)
ListenerLeaves(cat, event) ==
  IF cat = Network
    THEN ~(event.kind = "Connected" /\ event.arg = TOKEN)
    ELSE IF event.kind = "CreateDirectory" THEN event.arg # DIR_NAME
    ELSE TRUE

\* listener, lines 192-209: one try_recv on the receiver of the category
Poll ==
  /\ lpc = "poll"
  /\ LET rx == MatchRx(it.val)
         r == TryRecv(queue[rx])
     IN /\ queue' = [queue EXCEPT ![rx] = r.q]
        /\ observed' = Append(observed, [cat |-> it.val, id |-> it.id, rx |-> rx,
                                         got |-> r.ok, msg |-> r.msg])
        /\ lpc' = IF r.ok /\ ListenerLeaves(it.val, r.msg.val) THEN "dropping" ELSE "recv"
  /\ UNCHANGED <<senders, live, created, rx_alive, th, it, nsends, script, enq, calls>>

\* the listener's closure ends: its three receivers are dropped one by one,
\* in an order the thread does not control relative to the producers
DropRx(ch) ==
  /\ lpc = "dropping"
  /\ rx_alive[ch]
  /\ rx_alive' = [rx_alive EXCEPT ![ch] = FALSE]
  /\ lpc' = IF \A c \in Channels \ {ch} : ~rx_alive[c] THEN "done" ELSE "dropping"
  /\ UNCHANGED <<senders, live, created, queue, th, it, nsends, script, enq,
                 calls, observed>>

Next ==
  \/ \E t \in Threads, d \in 1..MaxSenders, e \in NetworkEvent \cup UiEvent : Send(t, d, e)
  \/ \E t \in Threads : SendCategory(t)
  \/ \E t \in Threads : Return(t)
  \/ \E d \in 1..MaxSenders : Clone(d)
  \/ Recv
  \/ Poll
  \/ \E ch \in Channels : DropRx(ch)

Spec == Init /\ [][Next]_vars

\* the same with threads that let go of their senders, which closes the
\* category channel once the last one is gone
NextDrop ==
  \/ Next
  \/ \E t \in Threads : DropSenders(t)

SpecDrop == Init /\ [][NextDrop]_vars

\* -------------------------------------------- the test's main thread
\* The sends of lines 215-224 in program order, with what the test asserts
\* of each result.  The sleep of line 219 orders nothing and is not a step.
ui_event_sender == 1
nw_event_sender == 2
MainScript ==
  << [d |-> nw_event_sender, event |-> Connected(TOKEN),        ok |-> TRUE],
     [d |-> ui_event_sender, event |-> CreateDirectory(DIR_NAME), ok |-> TRUE],
     [d |-> ui_event_sender, event |-> Terminate,               ok |-> TRUE],
     [d |-> ui_event_sender, event |-> Terminate,               ok |-> FALSE],
     [d |-> nw_event_sender, event |-> Disconnected,            ok |-> FALSE],
     [d |-> ui_event_sender, event |-> CreateDirectory(DIR_NAME), ok |-> FALSE] >>

\* the assert! on the previous send passed (the main thread panics otherwise)
ScriptAssertHolds ==
  IF script = 0 THEN TRUE
  ELSE (th[MainThread].result.kind = "Ok") <=> MainScript[script].ok

ScriptSend ==
  /\ script < Len(MainScript)
  /\ ScriptAssertHolds
  /\ SendEvent(MainThread, MainScript[script + 1].d, MainScript[script + 1].event)
  /\ script' = script + 1

NextE2E ==
  \/ ScriptSend
  \/ SendCategory(MainThread)
  \/ Return(MainThread)
  \/ Recv
  \/ Poll
  \/ \E ch \in Channels : DropRx(ch)

SpecE2E == Init /\ [][NextE2E]_vars

\* Scheduling: the listener is a spawned thread (line 190) and the producers
\* are threads too; a thread whose next step is possible takes it in the end.
ListenerStep == Recv \/ Poll \/ \E ch \in Channels : DropRx(ch)
ListenerFair == WF_vars(ListenerStep)
ProducerFair(t) == WF_vars(SendCategory(t)) /\ WF_vars(Return(t))

\* Producers that never send an event on which the listener leaves its loop
\* and that let go of their senders: the only end of the listener is the
\* closing of the category channel.
PlainEvents ==
  {e \in NetworkEvent \cup UiEvent :
     \E cat \in EventCategory : e \in EventSubset(MatchRx(cat)) /\ ~ListenerLeaves(cat, e)}

NextClose ==
  \/ \E t \in Threads, d \in 1..MaxSenders, e \in PlainEvents : Send(t, d, e)
  \/ \E t \in Threads : SendCategory(t)
  \/ \E t \in Threads : Return(t)
  \/ \E d \in 1..MaxSenders : Clone(d)
  \/ \E t \in Threads : DropSenders(t)
  \/ Recv
  \/ Poll
  \/ \E ch \in Channels : DropRx(ch)

SpecClose == Init /\ [][NextClose]_vars
SpecCloseFair == SpecClose /\ ListenerFair

\* the listener thread keeps running, and a producer that has placed its
\* payload is eventually scheduled to publish the category
SpecFair == Spec /\ ListenerFair /\ \A t \in Threads : WF_vars(SendCategory(t))

SpecE2EFair == SpecE2E /\ ListenerFair /\ ProducerFair(MainThread) /\ WF_vars(ScriptSend)

\* the whole of send run without interruption from a given channel state
SendOutcome(s, rx, q, event, id) ==
  LET p == SendPayloadStep(s, rx[s.event_tx], q[s.event_tx], event, id)
      q1 == [q EXCEPT ![s.event_tx] = p.q]
      c == SendCategoryStep(s, rx[s.event_category_tx], q1[s.event_category_tx], id)
  IN IF p.enqueued
       THEN [result |-> c.result, queue |-> [q1 EXCEPT ![s.event_category_tx] = c.q]]
       ELSE [result |-> p.result, queue |-> q1]

\* ------------------------------------------------------------ properties
CallIds == 1..Len(calls)
\* the positions in everything enqueued on ch that were enqueued by call i
EnqBy(ch, i) == {k \in 1..Len(enq[ch]) : enq[ch][k].id = i}
NotificationsOf(cat) == {k \in 1..Len(enq[catergory]) : enq[catergory][k].val = cat}
\* the category each construction call was given (lines 182-188)
FamilyCategory(f) == IF f = 1 THEN UserInterface ELSE Network

\* C1: a category is enqueued only by a call whose payload is already
\* enqueued on the sender's payload channel, so the notifications of a
\* category never outnumber the payloads of its payload channel.
C1_PayloadBeforeCategory ==
  /\ \A k \in 1..Len(enq[catergory]) :
       LET m == enq[catergory][k]
       IN /\ m.id \in CallIds
          /\ EnqBy(calls[m.id].sender.event_tx, m.id) # {}
          /\ calls[m.id].sender.event_tx = MatchRx(m.val)
  /\ \A cat \in EventCategory :
       Cardinality(NotificationsOf(cat)) <= Len(enq[MatchRx(cat)])

C1_Witness ==
  \E cat \in EventCategory :
    /\ Cardinality(NotificationsOf(cat)) = 2
    /\ Len(enq[MatchRx(cat)]) = 2

\* C2: a send called when the payload receiver is gone returns
\* EventSendError with the event it was given and enqueues nothing on either
\* channel, whatever the state of the category receiver.
C2_PayloadRxDropped ==
  \A i \in CallIds :
    ~calls[i].payload_rx =>
      /\ calls[i].result = [kind |-> "EventSendError", event |-> calls[i].event,
                            category |-> ""]
      /\ ~calls[i].category_step
      /\ \A ch \in Channels : EnqBy(ch, i) = {}

C2_Witness ==
  \E i \in CallIds :
    /\ ~calls[i].payload_rx
    /\ calls[i].returned
    /\ rx_alive[catergory]

\* C3: when the category receiver is gone at the category step, the payload
\* is on the payload channel all the same and the result is CategorySendError
\* with the sender's category; every CategorySendError follows an enqueued
\* payload.
C3_CategoryRxDropped ==
  \A i \in CallIds :
    LET c == calls[i]
        orphan == \E k \in EnqBy(c.sender.event_tx, i) :
                    enq[c.sender.event_tx][k].val = c.event
    IN /\ (c.payload_rx /\ c.category_step /\ ~c.category_rx) =>
            /\ orphan
            /\ c.result = [kind |-> "CategorySendError", event |-> NoEvent,
                           category |-> c.sender.event_category]
       /\ c.result.kind = "CategorySendError" => orphan /\ EnqBy(catergory, i) = {}

C3_Witness ==
  \E i \in CallIds :
    /\ calls[i].result.kind = "CategorySendError"
    /\ calls[i].returned
    /\ rx_alive[calls[i].sender.event_tx]

\* C4: every sender, constructed or cloned, keeps the category its
\* construction call was given, and every category it enqueues or returns in
\* CategorySendError is that category.
C4_CategoryBinding ==
  /\ \A d \in 1..created : senders[d].event_category = FamilyCategory(senders[d].family)
  /\ \A k \in 1..Len(enq[catergory]) :
       enq[catergory][k].val = FamilyCategory(senders[calls[enq[catergory][k].id].d].family)
  /\ \A i \in CallIds :
       calls[i].result.kind = "CategorySendError" =>
         calls[i].result.category = FamilyCategory(senders[calls[i].d].family)

C4_Witness ==
  /\ \E k \in 1..Len(enq[catergory]) : calls[enq[catergory][k].id].d > 2
  /\ \E i \in CallIds : calls[i].result.kind = "EventSendError"

\* C5: from any channel state, send(e) through one clone of a family and
\* through another give the same result and the same channel contents.
C5_ClonesInterchangeable ==
  \A a \in live, b \in live :
    (a < b /\ senders[a].family = senders[b].family) =>
      \A e \in EventSubset(senders[a].event_tx) :
        SendOutcome(senders[a], rx_alive, queue, e, nsends + 1)
          = SendOutcome(senders[b], rx_alive, queue, e, nsends + 1)

C5_Witness ==
  \E a \in live, b \in live :
    /\ a # b
    /\ senders[a].family = senders[b].family
    /\ queue[senders[a].event_tx] # <<>>
    /\ queue[catergory] # <<>>
    /\ \E i \in CallIds : calls[i].d = a /\ calls[i].result.kind = "Ok"
    /\ \E i \in CallIds : calls[i].d = b /\ calls[i].result.kind = "Ok"

\* what the listener got from the receiver of ch, in the order it got it
IsFrom(o, ch) == o.got /\ o.rx = ch
Polled(ch) == LET Test(o) == IsFrom(o, ch) IN SelectSeq(observed, Test)
\* no two sends to payload channel ch were in progress at the same time
NonOverlapping(ch) ==
  \A i \in CallIds, j \in CallIds :
    (i < j /\ calls[i].sender.event_tx = ch /\ calls[j].sender.event_tx = ch)
      => i \in calls[j].prior

\* C6 as stated: the payload polled after reading the notification of a send
\* is the event of that send, in every interleaving of producers.
C6_AsStated ==
  \A k \in 1..Len(observed) :
    observed[k].got => observed[k].msg.val = calls[observed[k].id].event

\* C6: when the sends to a payload channel do not overlap, the payload the
\* listener polls after reading the notification of a send is the payload of
\* that very send (or the poll is empty).
C6_SequentialOrder ==
  \A k \in 1..Len(observed) :
    (observed[k].got /\ NonOverlapping(observed[k].rx)) =>
      /\ observed[k].msg.id = observed[k].id
      /\ observed[k].msg.val = calls[observed[k].id].event

C6_Witness ==
  \E k \in 1..Len(observed), j \in 1..Len(observed) :
    /\ k < j
    /\ observed[k].got /\ observed[j].got
    /\ observed[k].rx = observed[j].rx
    /\ NonOverlapping(observed[k].rx)
    /\ calls[observed[k].id].d # calls[observed[j].id].d
    /\ observed[k].msg.val # observed[j].msg.val

\* the values of a sequence of observations
RECURSIVE Vals(_)
Vals(os) == IF os = <<>> THEN <<>> ELSE <<Head(os).msg.val>> \o Vals(Tail(os))
IsPrefix(a, b) == Len(a) <= Len(b) /\ a = SubSeq(b, 1, Len(a))

\* C7: in the test's scenario the first three sends return Ok, every payload
\* polled for Network is Connected(TOKEN), and the payloads polled for
\* UserInterface are CreateDirectory(DIR_NAME) and then Terminate.
C7_EndToEnd ==
  /\ \A i \in CallIds : i <= 3 => calls[i].result.kind \in {"None", "Ok"}
  /\ \A k \in 1..Len(observed) :
       (observed[k].got /\ observed[k].cat = Network) =>
         /\ observed[k].rx = network_event
         /\ observed[k].msg.val = Connected(TOKEN)
  /\ \A k \in 1..Len(observed) :
       (observed[k].got /\ observed[k].cat = UserInterface) => observed[k].rx = ui_event
  /\ IsPrefix(Vals(Polled(network_event)), <<Connected(TOKEN)>>)
  /\ IsPrefix(Vals(Polled(ui_event)), <<CreateDirectory(DIR_NAME), Terminate>>)

C7_Witness ==
  /\ lpc = "done"
  /\ \A i \in 1..3 : i \in CallIds /\ calls[i].returned /\ calls[i].result.kind = "Ok"
  /\ Vals(Polled(network_event)) = <<Connected(TOKEN)>>
  /\ Vals(Polled(ui_event)) = <<CreateDirectory(DIR_NAME), Terminate>>

\* C8: a send called after the listener dropped all three receivers fails
\* with EventSendError carrying the event it was given, on any sender.
C8_AfterListenerExit ==
  \A i \in CallIds :
    calls[i].exited =>
      /\ calls[i].result.kind = "EventSendError"
      /\ calls[i].result.event = calls[i].event

C8_Witness ==
  /\ lpc = "done"
  /\ \E i \in CallIds :
       /\ calls[i].exited
       /\ calls[i].returned
       /\ calls[i].d > 2

\* C9, the enqueues of a call: an Ok call has put exactly its event on its
\* payload channel and exactly its category on the category channel and
\* nothing elsewhere; no call has put more than one item on a channel.
C9_Enqueues ==
  \A i \in CallIds :
    LET c == calls[i]
    IN /\ \A ch \in Channels : Cardinality(EnqBy(ch, i)) <= 1
       /\ c.result.kind = "Ok" =>
            /\ \E k \in EnqBy(c.sender.event_tx, i) : enq[c.sender.event_tx][k].val = c.event
            /\ \E k \in EnqBy(catergory, i) : enq[catergory][k].val = c.sender.event_category
            /\ \A ch \in EventChannels \ {c.sender.event_tx} : EnqBy(ch, i) = {}

\* C9, the frame of a step of send: it appends at most one item at the tail
\* of the one channel of that step and leaves every other queue, every
\* queued item, every sender and every receiver as it was.
StepOfSend(t) == th[t].pc \in {"idle", "category"} /\ th'[t].pc # th[t].pc
C9_Frame ==
  \A t \in Threads :
    StepOfSend(t) =>
      LET s == senders[th'[t].d]
          ch == IF th[t].pc = "idle" THEN s.event_tx ELSE s.event_category_tx
          m == [val |-> IF th[t].pc = "idle" THEN th'[t].event ELSE s.event_category,
                id |-> th'[t].id]
      IN /\ queue'[ch] = queue[ch] \/ queue'[ch] = Append(queue[ch], m)
         /\ \A c \in Channels \ {ch} : queue'[c] = queue[c]
         /\ senders' = senders /\ live' = live /\ rx_alive' = rx_alive
         /\ th'[t].pc = "return" /\ th'[t].result.kind = "Ok" =>
              queue'[ch] = Append(queue[ch], m)

\* C9: the effect of one send call.
C9_SendEffect == []C9_Enqueues /\ [][C9_Frame]_vars

C9_Witness ==
  \E i \in CallIds :
    /\ calls[i].result.kind = "Ok"
    /\ calls[i].returned
    /\ EnqBy(calls[i].sender.event_tx, i) = {2}
    /\ EnqBy(catergory, i) = {2}

\* C10: the listener gets the payloads of a payload channel in the order
\* they were enqueued, and a send that returned before another was invoked
\* has its payload ahead of the other's.
C10_Fifo ==
  \A ch \in EventChannels :
    /\ Len(Polled(ch)) <= Len(enq[ch])
    /\ \A k \in 1..Len(Polled(ch)) : Polled(ch)[k].msg = enq[ch][k]
    /\ \A i \in CallIds, j \in CallIds :
         i \in calls[j].prior =>
           \A a \in EnqBy(ch, i), b \in EnqBy(ch, j) : a < b

C10_Witness ==
  \E ch \in EventChannels :
    /\ Len(Polled(ch)) = 2
    /\ Polled(ch)[1].msg.val # Polled(ch)[2].msg.val
    /\ calls[Polled(ch)[1].msg.id].d # calls[Polled(ch)[2].msg.id].d
    /\ Polled(ch)[1].msg.id \in calls[Polled(ch)[2].msg.id].prior

\* a producer thread sits between the two steps of a send to payload channel ch
Preempted(t, ch) == th[t].pc = "category" /\ senders[th[t].d].event_tx = ch

TerminateSent ==
  /\ Len(calls) >= 3
  /\ calls[3].event = Terminate
  /\ calls[3].returned
  /\ calls[3].result.kind = "Ok"
\* the listener polled Terminate, left its loop and dropped its receivers
ListenerGone ==
  /\ lpc = "done"
  /\ \A ch \in Channels : ~rx_alive[ch]
  /\ Len(observed) >= 1
  /\ observed[Len(observed)].got
  /\ observed[Len(observed)].msg.val = Terminate

\* C12: in the test's scenario, once send(Terminate) has returned the
\* listener polls Terminate, leaves its loop and drops its three receivers;
\* a send called after that fails.
C12_TerminateEndsListener ==
  /\ TerminateSent ~> ListenerGone
  /\ [](\A i \in CallIds : calls[i].exited => calls[i].result.kind = "EventSendError")

C12_Witness ==
  /\ TerminateSent
  /\ ListenerGone
  /\ \E i \in CallIds : i > 3 /\ calls[i].exited /\ calls[i].returned

ListenerLeft == lpc \in {"dropping", "done"}
\* every sender, clones included, has been dropped
AllSendersDropped == live = {}
\* the listener has handled every notification ever enqueued
AllHandled == queue[catergory] = <<>> /\ Len(observed) = Len(enq[catergory])

\* C13, safety: with no event sent that ends the listener, it leaves its loop
\* only when no sender of the category channel is left and it has handled
\* every notification.
C13_Closed == ListenerLeft => (TxCount(catergory) = 0 /\ AllHandled)

\* C13: termination by handle drop.  Once every sender is dropped the
\* listener handles what is queued, its receive fails and it leaves and drops
\* its receivers; it never leaves before that.
C13_TerminationByDrop ==
  /\ []C13_Closed
  /\ AllSendersDropped ~> (lpc = "done" /\ AllHandled)

C13_Witness ==
  /\ lpc = "done"
  /\ AllSendersDropped
  /\ Len(observed) = 2
  /\ \E k \in 1..Len(observed) : calls[observed[k].id].d > 2

\* C14: the result of a send is decided by the liveness of the receiver at
\* each of its two steps and by nothing else, and a send between its steps
\* can always take the next one (it waits for nobody).
C14_ResultByLiveness ==
  /\ \A i \in CallIds :
       LET c == calls[i]
       IN /\ c.result.kind = "EventSendError" <=> ~c.payload_rx
          /\ c.result.kind = "Ok" <=> (c.payload_rx /\ c.category_step /\ c.category_rx)
          /\ c.result.kind = "CategorySendError"
               <=> (c.payload_rx /\ c.category_step /\ ~c.category_rx)
          /\ c.result.kind = "None" <=> (c.payload_rx /\ ~c.category_step)
  /\ \A t \in Threads :
       /\ th[t].pc = "category" => ENABLED SendCategory(t)
       /\ th[t].pc = "return" => ENABLED Return(t)

C14_Witness ==
  \E i \in CallIds :
    /\ calls[i].result.kind = "Ok"
    /\ calls[i].returned
    /\ EnqBy(calls[i].sender.event_tx, i) = {2}
    /\ Len(queue[calls[i].sender.event_tx]) = 2
    /\ Len(queue[catergory]) = 2

\* the send calls made on a dispatcher bound to category cat
CallsOf(cat) == {i \in CallIds : calls[i].sender.event_category = cat}
ReturnedWith(cat, kind) ==
  {i \in CallsOf(cat) : calls[i].returned /\ calls[i].result.kind = kind}
\* calls past the category step that have not handed their result back yet
PendingWith(cat, kind) ==
  {i \in CallsOf(cat) : ~calls[i].returned /\ calls[i].category_step
                        /\ calls[i].result.kind = kind}
\* calls that placed their payload and have not taken the category step
BetweenSteps(cat) ==
  {i \in CallsOf(cat) : calls[i].payload_rx /\ ~calls[i].category_step}
NotificationCount(cat) ==
  Cardinality(NotificationsOf(cat))
    = Cardinality(ReturnedWith(cat, "Ok")) + Cardinality(PendingWith(cat, "Ok"))

\* C15 as stated: notifications of C = sends returned Ok (+ past the category
\* step, not yet returned); payloads on C's channel = notifications of C
\* + sends that returned CategorySendError + sends between their two steps.
C15_AsStated ==
  \A cat \in EventCategory :
    /\ NotificationCount(cat)
    /\ Len(enq[MatchRx(cat)])
         = Cardinality(NotificationsOf(cat))
           + Cardinality(ReturnedWith(cat, "CategorySendError"))
           + Cardinality(BetweenSteps(cat))

\* C15: the same accounting, where the payload side also counts the sends
\* whose category step has failed and that have not returned yet.
C15_Accounting ==
  \A cat \in EventCategory :
    /\ NotificationCount(cat)
    /\ Len(enq[MatchRx(cat)])
         = Cardinality(NotificationsOf(cat))
           + Cardinality(ReturnedWith(cat, "CategorySendError"))
           + Cardinality(PendingWith(cat, "CategorySendError"))
           + Cardinality(BetweenSteps(cat))

C15_Witness ==
  \E cat \in EventCategory :
    /\ ReturnedWith(cat, "Ok") # {}
    /\ PendingWith(cat, "CategorySendError") # {}
    /\ Len(enq[MatchRx(cat)]) = 2

SentOk(i) == i \in CallIds /\ calls[i].returned /\ calls[i].result.kind = "Ok"
Received(i) ==
  \E k \in 1..Len(observed) : observed[k].got /\ observed[k].msg.id = i

\* C16: under fair scheduling, with the listener as the only reader polling
\* once per notification, an event whose send returned Ok is eventually
\* received unless the listener has left its loop on a terminal event; a
\* payload never sits in its channel for ever while the listener runs.
\* SentOk and Received never become false again, so "always eventually all
\* delivered" gives SentOk(i) ~> (Received(i) \/ ListenerLeft) for every i.
C16_Delivery ==
  []<>(ListenerLeft \/ \A i \in CallIds : SentOk(i) => Received(i))

C16_Witness ==
  \E i, j \in CallIds :
    /\ i < j
    /\ SentOk(j) /\ Received(j)
    /\ calls[i].sender.event_tx = calls[j].sender.event_tx
    /\ ~ListenerLeft
    /\ lpc = "recv"

====
